---- MODULE Spec2Model ----
(***************************************************************************)
(* The Pet CRUD service of server/app.py: five Flask route handlers over   *)
(* one table.  A step of the model is one request handled to completion    *)
(* (handler body, commit, response).                                       *)
(***************************************************************************)
EXTENDS Integers, Sequences, FiniteSets, TLC

\* ------------------------------------------------------------- bounds
\* Number of records the table ever receives (successful creates).
MaxId == 2

\* Strings that requests carry.  "Cat"/"cat" differ only in case.
Names == {"Fido"}
SpeciesNames == {"Cat", "cat"}

\* ------------------------------------------------------- JSON values
JNull == [kind |-> "null", str |-> "", num |-> 0]
JStr(s) == [kind |-> "str", str |-> s, num |-> 0]
JNum(n) == [kind |-> "num", str |-> "", num |-> n]

\* Python truthiness of a JSON scalar (None, "" and 0 are falsy).
Truthy(v) ==
    CASE v.kind = "null" -> FALSE
      [] v.kind = "str" -> v.str # ""
      [] v.kind = "num" -> v.num # 0

\* ------------------------------------------------- request bodies
\* The keys a body may hold.  create_pet is also offered an "id"; update_pet
\* is offered the two keys it looks for.
CreateKeys == {"name", "species", "id"}
UpdateKeys == {"name", "species"}

KeyVals(k) ==
    CASE k = "name" -> {JNull, JStr("")} \cup {JStr(s) : s \in Names}
      [] k = "species" -> {JNull, JStr("")} \cup {JStr(s) : s \in SpeciesNames}
      [] k = "id" -> {JNum(1)}

AllVals == UNION {KeyVals(k) : k \in CreateKeys}

\* The JSON objects over a set of keys: the keys present, each with a value.
Objects(keys) ==
    UNION {{f \in [K -> AllVals] : \A k \in K : f[k] \in KeyVals(k)} : K \in SUBSET keys}

EmptyObj == [k \in {} |-> JNull]

\* What request.get_json() hands the handler: None (the JSON literal null)
\* or a dict.
NoneData == [isNone |-> TRUE, obj |-> EmptyObj]
DictData(f) == [isNone |-> FALSE, obj |-> f]
CreateBodies == {NoneData} \cup {DictData(f) : f \in Objects(CreateKeys)}
UpdateBodies == {NoneData} \cup {DictData(f) : f \in Objects(UpdateKeys)}

\* `not data`: None and {} are falsy.
DataFalsy(data) == data.isNone \/ DOMAIN data.obj = {}

\* data.get(k): the value, or None when the key is absent.
DictGet(data, k) == IF k \in DOMAIN data.obj THEN data.obj[k] ELSE JNull

\* request.args.get('species'): None when the parameter is absent.
NoArg == [present |-> FALSE, value |-> ""]
Arg(s) == [present |-> TRUE, value |-> s]
Args == {NoArg, Arg("")} \cup {Arg(s) : s \in SpeciesNames}

PathIds == 1 .. MaxId

\* ------------------------------------------------------------ storage
\* A Pet instance; id 0 stands for the unset id of an unpersisted object.
Pet(name, species) == [id |-> 0, name |-> name, species |-> species]

NoPet == [id |-> 0, name |-> JNull, species |-> JNull]

VARIABLES
    pets,      \* the table: a set of rows [id, name, species]
    nextId,    \* the table's auto-increment counter
    created,   \* history: ids in the order create_pet persisted them
    req,       \* the request handled by the last step
    resp,      \* its response
    follows    \* history: how req relates to the step before it

vars == <<pets, nextId, created, req, resp, follows>>

\* db.session.get(Pet, pet_id): the row with that primary key, or None.
SessionGet(table, pet_id) == {p \in table : p.id = pet_id}

\* db.session.add(pet) + commit: an unset id is assigned from the counter,
\* a set one is kept.
Insert(table, seq, pet) ==
    IF pet.id = 0
    THEN [pets |-> table \cup {[pet EXCEPT !.id = seq]}, seq |-> seq + 1, id |-> seq]
    ELSE [pets |-> {p \in table : p.id # pet.id} \cup {pet}, seq |-> seq, id |-> pet.id]

\* db.session.delete(pet) + commit.
SessionDelete(table, pet) == table \ {pet}

\* Pet.query.delete(): every row goes.
QueryDelete(table) == {}

RECURSIVE ByRowId(_)
\* Query.all() with no ORDER BY: the rows by ascending primary key.
ByRowId(rows) ==
    IF rows = {} THEN <<>>
    ELSE LET first == CHOOSE p \in rows : \A q \in rows : p.id <= q.id
         IN <<first>> \o ByRowId(rows \ {first})

\* query.filter_by(species=v): SQL equality on the column (NULL matches nothing).
FilterBy(rows, v) == {p \in rows : p.species = JStr(v)}

\* ---------------------------------------------------------- responses
NoList == <<>>

Response(status, kind, pet, list, text) ==
    [status |-> status, kind |-> kind, pet |-> pet, list |-> list, text |-> text]

\* The dict literal {'id': pet.id, 'name': pet.name, 'species': pet.species}.
Serialize(pet) == [id |-> pet.id, name |-> pet.name, species |-> pet.species]

PetResponse(pet, status) == Response(status, "pet", Serialize(pet), NoList, "")
ListResponse(rows) ==
    Response(200, "list", NoPet, [i \in 1 .. Len(rows) |-> Serialize(rows[i])], "")
ErrorResponse(text, status) == Response(status, "error", NoPet, NoList, text)
MessageResponse(text, status) == Response(status, "message", NoPet, NoList, text)
\* An exception escaping a handler: Flask answers 500.
ServerError == Response(500, "fault", NoPet, NoList, "")

Request(op, pet_id, data, args) ==
    [op |-> op, pet_id |-> pet_id, data |-> data, args |-> args]

\* ------------------------------------------------------------- history
\* "create": req is a get of the id the step before it created;
\* "delete": req is a get or delete of the id the step before it deleted.
Follows(r) ==
    IF req.op = "create_pet" /\ resp.status = 201
       /\ r.op = "get_pet" /\ r.pet_id = resp.pet.id
    THEN "create"
    ELSE IF req.op = "delete_pet" /\ resp.status = 200
            /\ r.op \in {"get_pet", "delete_pet"} /\ r.pet_id = req.pet_id
    THEN "delete"
    ELSE "none"

Handled(r, response) ==
    /\ req' = r
    /\ resp' = response
    /\ follows' = Follows(r)

Init ==
    /\ pets = {}
    /\ nextId = 1
    /\ created = <<>>
    /\ req = Request("init", 0, NoneData, NoArg)
    /\ resp = Response(0, "none", NoPet, NoList, "")
    /\ follows = "none"

\* ------------------------------------------------------------ handlers
\* Mutant: tests that the keys are there, not that their values are truthy.
CreateInvalidPresenceOnly(data) ==
    \/ DataFalsy(data)
    \/ "name" \notin DOMAIN data.obj
    \/ "species" \notin DOMAIN data.obj

\* POST /pets: the validation guard.
CreateInvalid(data) ==
    \/ DataFalsy(data)
    \/ ~Truthy(DictGet(data, "name"))
    \/ ~Truthy(DictGet(data, "species"))

\* Mutant: the constructor is also handed the body's id.
NewPetBodyId(data) ==
    [id |-> IF "id" \in DOMAIN data.obj THEN data.obj["id"].num ELSE 0,
     name |-> data.obj["name"], species |-> data.obj["species"]]

\* Mutant: the two keyword arguments crossed.
NewPetSwapped(data) == Pet(data.obj["species"], data.obj["name"])

\* Pet(name=data['name'], species=data['species']); the id is left unset.
NewPet(data) == Pet(data.obj["name"], data.obj["species"])

create_pet(data) ==
    LET r == Request("create_pet", 0, data, NoArg) IN
    IF CreateInvalid(data)
    THEN /\ Handled(r, ErrorResponse("Name and species are required", 400))
         /\ UNCHANGED <<pets, nextId, created>>
    ELSE LET done == Insert(pets, nextId, NewPet(data))
             pet == CHOOSE p \in done.pets : p.id = done.id
         IN /\ nextId <= MaxId
            /\ pets' = done.pets
            /\ nextId' = done.seq
            /\ created' = Append(created, done.id)
            /\ Handled(r, PetResponse(pet, 201))

\* Mutant: filter_by applied without the `if`.
SpeciesQueryAlways(table, species_filter) == FilterBy(table, species_filter.value)

\* GET /pets: `if species_filter:` then filter_by, else the whole table.
SpeciesQuery(table, species_filter) ==
    IF species_filter.present /\ species_filter.value # ""
    THEN FilterBy(table, species_filter.value)
    ELSE table

get_pets(species_filter) ==
    /\ Handled(Request("get_pets", 0, NoneData, species_filter),
               ListResponse(ByRowId(SpeciesQuery(pets, species_filter))))
    /\ UNCHANGED <<pets, nextId, created>>

\* Mutant: the not-found branch returns without its 404.
GetPetResponseNoStatus(table, pet_id) ==
    LET found == SessionGet(table, pet_id) IN
    IF found = {}
    THEN ErrorResponse("Pet not found", 200)
    ELSE PetResponse(CHOOSE p \in found : TRUE, 200)

\* GET /pets/<id>
GetPetResponse(table, pet_id) ==
    LET found == SessionGet(table, pet_id) IN
    IF found = {}
    THEN ErrorResponse("Pet not found", 404)
    ELSE PetResponse(CHOOSE p \in found : TRUE, 200)

get_pet(pet_id) ==
    /\ Handled(Request("get_pet", pet_id, NoneData, NoArg), GetPetResponse(pets, pet_id))
    /\ UNCHANGED <<pets, nextId, created>>

\* Mutant: data.get(...) assigned unconditionally.
ApplyUpdateOverwrite(pet, data) ==
    [pet EXCEPT !.name = DictGet(data, "name"), !.species = DictGet(data, "species")]

\* `if 'name' in data: pet.name = data['name']`, the same for species.
ApplyUpdate(pet, data) ==
    [pet EXCEPT
        !.name = IF "name" \in DOMAIN data.obj THEN data.obj["name"] ELSE @,
        !.species = IF "species" \in DOMAIN data.obj THEN data.obj["species"] ELSE @]

\* PUT|PATCH /pets/<id>
update_pet(pet_id, data) ==
    LET r == Request("update_pet", pet_id, data, NoArg)
        found == SessionGet(pets, pet_id)
    IN
    IF found = {}
    THEN /\ Handled(r, ErrorResponse("Pet not found", 404))
         /\ UNCHANGED <<pets, nextId, created>>
    ELSE IF data.isNone
    THEN \* `'name' in None` raises TypeError before anything is written
         /\ Handled(r, ServerError)
         /\ UNCHANGED <<pets, nextId, created>>
    ELSE LET pet == CHOOSE p \in found : TRUE
             updated == ApplyUpdate(pet, data)
         IN /\ pets' = (pets \ {pet}) \cup {updated}
            /\ Handled(r, PetResponse(updated, 200))
            /\ UNCHANGED <<nextId, created>>

\* Mutant: the delete is never committed.
DeleteFromUncommitted(table, pet_id) == table

\* What delete_pet leaves in the table.
DeleteFrom(table, pet_id) ==
    LET found == SessionGet(table, pet_id) IN
    IF found = {} THEN table ELSE SessionDelete(table, CHOOSE p \in found : TRUE)

\* DELETE /pets/<id>
delete_pet(pet_id) ==
    LET r == Request("delete_pet", pet_id, NoneData, NoArg) IN
    /\ IF SessionGet(pets, pet_id) = {}
       THEN Handled(r, ErrorResponse("Pet not found", 404))
       ELSE Handled(r, MessageResponse("Pet deleted successfully", 200))
    /\ pets' = DeleteFrom(pets, pet_id)
    /\ UNCHANGED <<nextId, created>>

\* Pet.query.delete(); db.session.commit() -- the bulk delete, not a route.
query_delete ==
    /\ pets # {}
    /\ pets' = QueryDelete(pets)
    /\ Handled(Request("query_delete", 0, NoneData, NoArg),
               Response(0, "none", NoPet, NoList, ""))
    /\ UNCHANGED <<nextId, created>>

Next ==
    \/ \E data \in CreateBodies : create_pet(data)
    \/ \E species_filter \in Args : get_pets(species_filter)
    \/ \E pet_id \in PathIds : get_pet(pet_id)
    \/ \E pet_id \in PathIds, data \in UpdateBodies : update_pet(pet_id, data)
    \/ \E pet_id \in PathIds : delete_pet(pet_id)
    \/ query_delete

Spec == Init /\ [][Next]_vars

\* -------------------------------------------------------------- claims
Ids(table) == {p.id : p \in table}
Row(table, pet_id) == CHOOSE p \in table : p.id = pet_id
NotFound == [status |-> 404, kind |-> "error", pet |-> NoPet, list |-> <<>>,
             text |-> "Pet not found"]
Routes == {"create_pet", "get_pets", "get_pet", "update_pet", "delete_pet"}

\* C1: in every reachable state every stored Pet has a non-null name and a
\* non-null species, also after an update whose body carries null for one.
C1_NonNullFields == \A p \in pets : p.name # JNull /\ p.species # JNull

C3_InvalidCreateRejected ==
    [][(/\ req'.op = "create_pet"
        /\ LET d == req'.data IN
           \/ d.isNone
           \/ d.obj = EmptyObj
           \/ "name" \notin DOMAIN d.obj
           \/ d.obj["name"] \in {JNull, JStr("")}
           \/ "species" \notin DOMAIN d.obj
           \/ d.obj["species"] \in {JNull, JStr("")})
       => /\ resp' = [status |-> 400, kind |-> "error", pet |-> NoPet, list |-> <<>>,
                      text |-> "Name and species are required"]
          /\ pets' = pets
          /\ nextId' = nextId]_vars

C3_Witness ==
    /\ req.op = "create_pet" /\ resp.status = 400
    /\ ~req.data.isNone /\ DOMAIN req.data.obj = {"name", "species"}
    /\ req.data.obj["name"] = JStr("Fido") /\ req.data.obj["species"] = JStr("")
    /\ Cardinality(pets) = 1

\* C4: a create with a non-empty name and species answers 201 with the
\* request's name and species and a positive id; a get of that id in the
\* next request answers 200 with the same record.
C4_CreateThenGet ==
    [][/\ (/\ req'.op = "create_pet"
           /\ ~req'.data.isNone
           /\ {"name", "species"} \subseteq DOMAIN req'.data.obj
           /\ req'.data.obj["name"] \notin {JNull, JStr("")}
           /\ req'.data.obj["species"] \notin {JNull, JStr("")})
          => /\ resp'.status = 201 /\ resp'.kind = "pet"
             /\ resp'.pet.name = req'.data.obj["name"]
             /\ resp'.pet.species = req'.data.obj["species"]
             /\ resp'.pet.id >= 1
       /\ (/\ req.op = "create_pet" /\ resp.status = 201
           /\ req'.op = "get_pet" /\ req'.pet_id = resp.pet.id)
          => /\ resp'.status = 200 /\ resp'.kind = "pet"
             /\ resp'.pet = resp.pet]_vars

C4_Witness ==
    /\ follows = "create"
    /\ req.op = "get_pet" /\ req.pet_id = 2
    /\ resp.status = 200
    /\ resp.pet = [id |-> 2, name |-> JStr("Fido"), species |-> JStr("cat")]

\* C5: get, update and delete of an id no stored record has each answer
\* 404 {error: "Pet not found"} and leave the table as it was.
C5_NotFound ==
    [][(/\ req'.op \in {"get_pet", "update_pet", "delete_pet"}
        /\ req'.pet_id \notin Ids(pets))
       => /\ resp' = NotFound
          /\ pets' = pets
          /\ nextId' = nextId]_vars

C5_Witness ==
    /\ req.op = "update_pet" /\ resp = NotFound
    /\ ~req.data.isNone /\ "name" \in DOMAIN req.data.obj
    /\ req.pet_id \notin Ids(pets)
    /\ pets # {}

\* C6: an update of a stored id with a JSON-object body sets each of
\* name/species the body holds to the body's value, keeps the other, keeps
\* the id and every other record, and answers 200 with the updated record.
C6_PartialUpdate ==
    [][(/\ req'.op = "update_pet"
        /\ req'.pet_id \in Ids(pets)
        /\ ~req'.data.isNone)
       => LET old == Row(pets, req'.pet_id)
              body == req'.data.obj
              new == [id |-> old.id,
                      name |-> IF "name" \in DOMAIN body THEN body["name"] ELSE old.name,
                      species |-> IF "species" \in DOMAIN body
                                  THEN body["species"] ELSE old.species]
          IN /\ pets' = {IF p.id = req'.pet_id THEN new ELSE p : p \in pets}
             /\ Cardinality(pets') = Cardinality(pets)
             /\ resp' = [status |-> 200, kind |-> "pet", pet |-> new, list |-> <<>>,
                         text |-> ""]
             /\ nextId' = nextId]_vars

C6_Witness ==
    /\ req.op = "update_pet" /\ resp.status = 200
    /\ DOMAIN req.data.obj = {"name"} /\ req.data.obj["name"] = JStr("")
    /\ resp.pet = [id |-> 1, name |-> JStr(""), species |-> JStr("Cat")]
    /\ Cardinality(pets) = 2

\* C7: a delete of a stored id answers 200 {message: "Pet deleted
\* successfully"} and removes that record and no other; a get or a second
\* delete of the same id in the next request answers 404.
C7_DeleteRemoves ==
    [][/\ (req'.op = "delete_pet" /\ req'.pet_id \in Ids(pets))
          => /\ resp' = [status |-> 200, kind |-> "message", pet |-> NoPet,
                         list |-> <<>>, text |-> "Pet deleted successfully"]
             /\ pets' = {p \in pets : p.id # req'.pet_id}
             /\ Cardinality(pets') = Cardinality(pets) - 1
       /\ (/\ req.op = "delete_pet" /\ resp.status = 200
           /\ req'.op \in {"get_pet", "delete_pet"} /\ req'.pet_id = req.pet_id)
          => resp' = NotFound]_vars

C7_Witness ==
    /\ follows = "delete"
    /\ req.op = "delete_pet" /\ resp = NotFound
    /\ Cardinality(pets) = 1

\* C8: a list without the species parameter answers 200 with every stored
\* record exactly once, in the order the records were created ([] on an
\* empty table), and leaves the table as it was.
C8_ListAll ==
    [][(req'.op = "get_pets" /\ ~req'.args.present)
       => LET Stored(id) == id \in Ids(pets)
              live == SelectSeq(created, Stored)
          IN /\ resp'.status = 200 /\ resp'.kind = "list"
             /\ Len(resp'.list) = Len(live)
             /\ Len(resp'.list) = Cardinality(pets)
             /\ \A i \in 1 .. Len(live) :
                   /\ resp'.list[i].id = live[i]
                   /\ resp'.list[i] \in pets
             /\ pets' = pets
             /\ nextId' = nextId]_vars

C8_Witness ==
    /\ req.op = "get_pets" /\ ~req.args.present
    /\ Len(resp.list) = 2
    /\ resp.list[1].id = 1 /\ resp.list[2].id = 2
    /\ resp.list[1].name = JStr("") /\ resp.list[2].species = JStr("cat")

\* C9: a list whose species parameter is present, whatever its value (""
\* included), answers exactly the stored records whose species equals it.
C9_FilterExact ==
    [][(req'.op = "get_pets" /\ req'.args.present)
       => /\ resp'.status = 200
          /\ {resp'.list[i] : i \in DOMAIN resp'.list}
                = {p \in pets : p.species = JStr(req'.args.value)}
          /\ Len(resp'.list) = Cardinality({p \in pets : p.species = JStr(req'.args.value)})
      ]_vars

\* C10: the only error answers are 400 from create and 404 from get, update
\* and delete; an update of a stored id answers 200 with the record for every
\* body, a null one included.
C10_OnlyTwoErrorKinds ==
    req.op \in Routes =>
       \/ resp.status \in {200, 201}
       \/ resp.status = 400 /\ req.op = "create_pet"
       \/ resp.status = 404 /\ req.op \in {"get_pet", "update_pet", "delete_pet"}

====
